---- MODULE Spec2Model ----
(***************************************************************************)
(* Model of get_time_series (src/get_landsat.py): discovery, download and  *)
(* emptiness filtering of the crops, optional registration with a 100 m    *)
(* margin that is cropped away afterwards, optional band-per-band          *)
(* equalization, and the debug copies kept before each of the two.         *)
(*                                                                         *)
(* The collaborators (search_landsat, download_landsat, tifffile,          *)
(* registration, midway, utils, os, shutil) are modelled by their effect   *)
(* on the file system and by the record of the call in `calls`.  lon, lat, *)
(* out_dir and the dates are passed through unchanged by the code and are  *)
(* left out of the recorded arguments.                                     *)
(***************************************************************************)
EXTENDS Integers, Sequences, FiniteSets, TLC

\* ---------------------------------------------------------------- bounds
MaxScenes == 3
MaxBands == 3
MaxCrops == 6

\* ------------------------------------------------------ program constants
Margin == 100

\* requested crop sizes (w, h) the model draws from
Sizes == {<<5000, 5000>>, <<300, 200>>}

\* what the download service holds for one band of one scene
Outcomes == {"missing", "zero", "data"}

VARIABLES
    bands,      \* argument: requested bands, in order
    w0, h0,     \* arguments w and h as passed by the caller
    register, equalize, debug,   \* arguments
    catalog,    \* number of images the search returns
    avail,      \* avail[img][band]: what the download yields for that band
    pc,         \* position in get_time_series
    images,     \* local: result of list_images
    w, h,       \* locals w and h (enlarged by the margin when registering)
    crops,      \* local: list of lists of paths
    l,          \* local: paths returned for the current image
    k,          \* position of `for img in images`
    j,          \* position of the loops over the paths of l / of crops
    i,          \* position of `for i in xrange(len(bands))`
    disk,       \* file system: path -> raster content, for existing files
    dirs,       \* directories made by mkdir_p
    calls,      \* collaborator calls that returned, in order
    run,        \* 1: first invocation, 2: second invocation (debug toggled)
    prev        \* outcome of the first invocation

args == <<bands, w0, h0, register, equalize, catalog, avail>>
locals == <<images, w, h, crops, l, k, j, i>>
world == <<disk, dirs, calls>>
vars == <<args, debug, pc, locals, world, run, prev>>

\* ------------------------------------------------------------ file system
OutPath(img, b) == [dir |-> "out", scene |-> img, band |-> b]
DirPath(d) == [dir |-> d, scene |-> 0, band |-> 0]

\* os.path.join(d, os.path.basename(p))
InDir(d, p) == [p EXCEPT !.dir = d]

Range(s) == {s[n] : n \in 1..Len(s)}

RECURSIVE Flatten(_)
\* the paths visited by `for crop in crops: for b in crop`, in order
Flatten(cs) == IF cs = <<>> THEN <<>> ELSE Head(cs) \o Flatten(Tail(cs))

\* raster written by the download for band b of image img at size cw x ch
NewFile(img, b, cw, ch) ==
    [px |-> avail[img][b], w |-> cw, h |-> ch, reg |-> FALSE, eq |-> {},
     scene |-> img, band |-> b]

\* tifffile.imread(x).any()
HasAny(f) == f.px = "data"

\* utils.crop_georeferenced_image: the sub-raster of f of size cw x ch
CropImage(f, cw, ch) == [f EXCEPT !.w = cw, !.h = ch]

\* registration.main rewrites every image of the series in place
Registered(d, series) ==
    [p \in DOMAIN d |->
        IF p \in Range(Flatten(series)) THEN [d[p] EXCEPT !.reg = TRUE] ELSE d[p]]

\* midway.main rewrites every image of the group in place; the result depends
\* on the rasters that were put together
Equalized(d, group) ==
    [p \in DOMAIN d |->
        IF p \in Range(group)
        THEN [d[p] EXCEPT !.eq = {d[q].band : q \in Range(group)}]
        ELSE d[p]]

WriteFile(d, p, f) == (p :> f) @@ d
RemoveFile(d, p) == [q \in DOMAIN d \ {p} |-> d[q]]

\* ------------------------------------------------------- recorded calls
Call(op, img, series, group, cw, ch) ==
    [op |-> op, img |-> img, series |-> series, group |-> group,
     w |-> cw, h |-> ch, series2 |-> <<>>, all_pairwise |-> FALSE]

\* registration.main(a, b, all_pairwise=ap)
RegistrationCall(a, b, ap) ==
    [Call("registration", 0, a, <<>>, 0, 0) EXCEPT !.series2 = b,
                                                   !.all_pairwise = ap]

\* ------------------------------------------------------------ collaborators
\* download_landsat.get_crops_from_kayrros_api: one path per band retrieved,
\* in the order of the requested bands
GetCropsResult(img) ==
    LET got == SelectSeq(bands, LAMBDA b : avail[img][b] # "missing")
    IN  [n \in 1..Len(got) |-> OutPath(img, got[n])]

\* number of files all(imread(x).any() for x in l) reads: it stops at the
\* first empty one
NumRead(d, ps) ==
    IF \E n \in 1..Len(ps) : ~HasAny(d[ps[n]])
    THEN CHOOSE n \in 1..Len(ps) :
            /\ ~HasAny(d[ps[n]])
            /\ \A m \in 1..(n - 1) : HasAny(d[ps[m]])
    ELSE Len(ps)

\* mutant: the test keeps a scene as soon as one of its images is not empty
AllHaveAny_Some(d, ps) == \E n \in 1..Len(ps) : HasAny(d[ps[n]])

AllHaveAny(d, ps) == \A n \in 1..Len(ps) : HasAny(d[ps[n]])

\* mutant: the length test is off by one
MidwayGroup_OffByOne(cs, n) ==
    LET sel == SelectSeq(cs, LAMBDA crop : Len(crop) > n + 1)
    IN  [m \in 1..Len(sel) |-> sel[m][n + 1]]

\* [crop[i] for crop in crops if len(crop) > i]   (i counts from 0)
MidwayGroup(cs, n) ==
    LET sel == SelectSeq(cs, LAMBDA crop : Len(crop) > n)
    IN  [m \in 1..Len(sel) |-> sel[m][n + 1]]

\* ------------------------------------------------------------ control flow
\* mutant: the loop over the bands stops one band short
MidwayFrom_OneShort(n) == IF n + 1 < Len(bands) THEN "midway" ELSE "done"

MidwayFrom(n) == IF n < Len(bands) THEN "midway" ELSE "done"

\* mutant: the copies before equalization are made without looking at debug
AfterRegister_AlwaysCopy ==
    IF equalize THEN "mkdir_midway" ELSE "done"

\* line 92: if equalize / line 93: if debug
AfterRegister ==
    IF equalize
    THEN IF debug THEN "mkdir_midway" ELSE MidwayFrom(0)
    ELSE "done"

\* line 76: if register / line 77: if debug
AfterDownload ==
    IF register
    THEN IF debug THEN "mkdir_bak" ELSE "registration"
    ELSE AfterRegister

\* mutant: the loop stops one image short
NextImage_SkipLast(n) == IF n < Len(images) THEN "get_crops" ELSE AfterDownload

\* mutant: when no image was kept the download starts over
NextImage_Retry(n) ==
    IF n <= Len(images) THEN "get_crops"
    ELSE IF crops = <<>> /\ images # <<>> THEN "margin"
    ELSE AfterDownload

\* line 65: for img in images
NextImage(n) == IF n <= Len(images) THEN "get_crops" ELSE AfterDownload

\* the positions at which a collaborator call is pending
CallSites == {"list_images", "get_crops", "test", "remove", "mkdir_bak",
              "backup", "registration", "remove_margin", "mkdir_midway",
              "copy", "midway"}

\* ------------------------------------------------------------------ Init
Init ==
    /\ \E nb \in 0..MaxBands, n \in 0..MaxScenes :
        /\ n * nb <= MaxCrops
        /\ bands = [b \in 1..nb |-> b]
        /\ catalog = n
        /\ avail \in [1..n -> [1..nb -> Outcomes]]
    /\ \E sz \in Sizes : w0 = sz[1] /\ h0 = sz[2]
    /\ register \in BOOLEAN
    /\ equalize \in BOOLEAN
    /\ debug \in BOOLEAN
    /\ pc = "list_images"
    /\ images = <<>>
    /\ w = w0
    /\ h = h0
    /\ crops = <<>>
    /\ l = <<>>
    /\ k = 1
    /\ j = 1
    /\ i = 0
    /\ disk = <<>>
    /\ dirs = {}
    /\ calls = <<>>
    /\ run = 1
    /\ prev = [crops |-> <<>>, disk |-> <<>>, calls |-> <<>>]

\* --------------------------------------------------------------- actions
\* line 57
ListImages ==
    /\ pc = "list_images"
    /\ images' = [s \in 1..catalog |-> s]
    /\ calls' = Append(calls, Call("list_images", 0, <<>>, <<>>, 0, 0))
    /\ pc' = "margin"
    /\ UNCHANGED <<args, debug, w, h, crops, l, k, j, i, disk, dirs, run, prev>>

\* mutant: the margin is taken whether or not registration is asked for
TakeMargin_Always ==
    /\ pc = "margin"
    /\ w' = w + Margin
    /\ h' = h + Margin
    /\ crops' = <<>>
    /\ k' = 1
    /\ pc' = NextImage(1)
    /\ UNCHANGED <<args, debug, images, l, j, i, world, run, prev>>

\* mutant: only the width gets the margin
TakeMargin_WidthOnly ==
    /\ pc = "margin"
    /\ w' = IF register THEN w + Margin ELSE w
    /\ h' = h
    /\ crops' = <<>>
    /\ k' = 1
    /\ pc' = NextImage(1)
    /\ UNCHANGED <<args, debug, images, l, j, i, world, run, prev>>

\* lines 59-64
TakeMargin ==
    /\ pc = "margin"
    /\ w' = IF register THEN w + Margin ELSE w
    /\ h' = IF register THEN h + Margin ELSE h
    /\ crops' = <<>>
    /\ k' = 1
    /\ pc' = NextImage(1)
    /\ UNCHANGED <<args, debug, images, l, j, i, world, run, prev>>

\* lines 65-67
GetCrops ==
    /\ pc = "get_crops"
    /\ LET img == images[k]
           got == GetCropsResult(img)
       IN  /\ l' = got
           /\ disk' = [p \in DOMAIN disk \cup Range(got) |->
                          IF p \in Range(got)
                          THEN NewFile(p.scene, p.band, w, h)
                          ELSE disk[p]]
           /\ calls' = Append(calls, Call("get_crops", img, <<>>, got, w, h))
    /\ pc' = "test"
    /\ UNCHANGED <<args, debug, images, w, h, crops, k, j, i, dirs, run, prev>>

\* mutant: an accepted list is put in front of crops instead of at its end
TestCrops_Prepend ==
    /\ pc = "test"
    /\ IF l = <<>>
       THEN /\ k' = k + 1
            /\ pc' = NextImage(k + 1)
            /\ UNCHANGED <<crops, j, calls>>
       ELSE /\ calls' = calls \o [n \in 1..NumRead(disk, l) |->
                                    Call("imread", 0, <<>>, <<l[n]>>, 0, 0)]
            /\ IF AllHaveAny(disk, l)
               THEN /\ crops' = <<l>> \o crops
                    /\ k' = k + 1
                    /\ pc' = NextImage(k + 1)
                    /\ UNCHANGED j
               ELSE /\ j' = 1
                    /\ pc' = "remove"
                    /\ UNCHANGED <<crops, k>>
    /\ UNCHANGED <<args, debug, images, w, h, l, i, disk, dirs, run, prev>>

\* mutant: the list is put in crops before it is tested, and stays there
TestCrops_AppendFirst ==
    /\ pc = "test"
    /\ IF l = <<>>
       THEN /\ k' = k + 1
            /\ pc' = NextImage(k + 1)
            /\ UNCHANGED <<crops, j, calls>>
       ELSE /\ calls' = calls \o [n \in 1..NumRead(disk, l) |->
                                    Call("imread", 0, <<>>, <<l[n]>>, 0, 0)]
            /\ crops' = Append(crops, l)
            /\ IF AllHaveAny(disk, l)
               THEN /\ k' = k + 1
                    /\ pc' = NextImage(k + 1)
                    /\ UNCHANGED j
               ELSE /\ j' = 1
                    /\ pc' = "remove"
                    /\ UNCHANGED k
    /\ UNCHANGED <<args, debug, images, w, h, l, i, disk, dirs, run, prev>>

\* lines 68-71
TestCrops ==
    /\ pc = "test"
    /\ IF l = <<>>
       THEN /\ k' = k + 1
            /\ pc' = NextImage(k + 1)
            /\ UNCHANGED <<crops, j, calls>>
       ELSE /\ calls' = calls \o [n \in 1..NumRead(disk, l) |->
                                    Call("imread", 0, <<>>, <<l[n]>>, 0, 0)]
            /\ IF AllHaveAny(disk, l)
               THEN /\ crops' = Append(crops, l)
                    /\ k' = k + 1
                    /\ pc' = NextImage(k + 1)
                    /\ UNCHANGED j
               ELSE /\ j' = 1
                    /\ pc' = "remove"
                    /\ UNCHANGED <<crops, k>>
    /\ UNCHANGED <<args, debug, images, w, h, l, i, disk, dirs, run, prev>>

\* lines 72-73
RemoveCrop ==
    /\ pc = "remove"
    /\ disk' = RemoveFile(disk, l[j])
    /\ calls' = Append(calls, Call("remove", 0, <<>>, <<l[j]>>, 0, 0))
    /\ IF j < Len(l)
       THEN /\ j' = j + 1
            /\ UNCHANGED <<pc, k>>
       ELSE /\ k' = k + 1
            /\ pc' = NextImage(k + 1)
            /\ UNCHANGED j
    /\ UNCHANGED <<args, debug, images, w, h, crops, l, i, dirs, run, prev>>

\* lines 78-79
MkdirBak ==
    /\ pc = "mkdir_bak"
    /\ dirs' = dirs \cup {"no_registration"}
    /\ calls' = Append(calls, Call("mkdir_p", 0, <<>>,
                                   <<DirPath("no_registration")>>, 0, 0))
    /\ j' = 1
    /\ pc' = IF Flatten(crops) = <<>> THEN "registration" ELSE "backup"
    /\ UNCHANGED <<args, debug, images, w, h, crops, l, k, i, disk, run, prev>>

\* mutant: the backup before registration is a plain copy, margin included
BackupCrop_Copy ==
    /\ pc = "backup"
    /\ LET b == Flatten(crops)[j]
           o == InDir("no_registration", b)
       IN  /\ disk' = WriteFile(disk, o, disk[b])
           /\ calls' = Append(calls, Call("copy", 0, <<>>, <<o, b>>, 0, 0))
    /\ IF j < Len(Flatten(crops))
       THEN j' = j + 1 /\ UNCHANGED pc
       ELSE pc' = "registration" /\ UNCHANGED j
    /\ UNCHANGED <<args, debug, images, w, h, crops, l, k, i, dirs, run, prev>>

\* mutant: the backup crop is written over the working image
BackupCrop_InPlace ==
    /\ pc = "backup"
    /\ LET b == Flatten(crops)[j]
       IN  /\ disk' = WriteFile(disk, b, CropImage(disk[b], w - Margin, h - Margin))
           /\ calls' = Append(calls, Call("crop", 0, <<>>, <<b, b>>,
                                          w - Margin, h - Margin))
    /\ IF j < Len(Flatten(crops))
       THEN j' = j + 1 /\ UNCHANGED pc
       ELSE pc' = "registration" /\ UNCHANGED j
    /\ UNCHANGED <<args, debug, images, w, h, crops, l, k, i, dirs, run, prev>>

\* mutant: the backup is cropped to w x h, the margin is kept
BackupCrop_FullSize ==
    /\ pc = "backup"
    /\ LET b == Flatten(crops)[j]
           o == InDir("no_registration", b)
       IN  /\ disk' = WriteFile(disk, o, CropImage(disk[b], w, h))
           /\ calls' = Append(calls, Call("crop", 0, <<>>, <<o, b>>, w, h))
    /\ IF j < Len(Flatten(crops))
       THEN j' = j + 1 /\ UNCHANGED pc
       ELSE pc' = "registration" /\ UNCHANGED j
    /\ UNCHANGED <<args, debug, images, w, h, crops, l, k, i, dirs, run, prev>>

\* lines 80-83
BackupCrop ==
    /\ pc = "backup"
    /\ LET b == Flatten(crops)[j]
           o == InDir("no_registration", b)
       IN  /\ disk' = WriteFile(disk, o, CropImage(disk[b], w - Margin, h - Margin))
           /\ calls' = Append(calls, Call("crop", 0, <<>>, <<o, b>>,
                                          w - Margin, h - Margin))
    /\ IF j < Len(Flatten(crops))
       THEN j' = j + 1 /\ UNCHANGED pc
       ELSE pc' = "registration" /\ UNCHANGED j
    /\ UNCHANGED <<args, debug, images, w, h, crops, l, k, i, dirs, run, prev>>

\* mutant: the margin is not removed after registration
Registration_NoTrim ==
    /\ pc = "registration"
    /\ disk' = Registered(disk, crops)
    /\ calls' = Append(calls, RegistrationCall(crops, crops, TRUE))
    /\ j' = 1
    /\ pc' = AfterRegister
    /\ UNCHANGED <<args, debug, images, w, h, crops, l, k, i, dirs, run, prev>>

\* line 85
Registration ==
    /\ pc = "registration"
    /\ disk' = Registered(disk, crops)
    /\ calls' = Append(calls, RegistrationCall(crops, crops, TRUE))
    /\ j' = 1
    /\ pc' = IF Flatten(crops) = <<>> THEN AfterRegister ELSE "remove_margin"
    /\ UNCHANGED <<args, debug, images, w, h, crops, l, k, i, dirs, run, prev>>

\* mutant: only the images of the first list of crops are cropped
RemoveMargin_FirstOnly ==
    /\ pc = "remove_margin"
    /\ LET b == Flatten(crops)[j]
       IN  /\ disk' = WriteFile(disk, b, CropImage(disk[b], w - Margin, h - Margin))
           /\ calls' = Append(calls, Call("crop", 0, <<>>, <<b, b>>,
                                          w - Margin, h - Margin))
    /\ IF j < Len(crops[1])
       THEN j' = j + 1 /\ UNCHANGED pc
       ELSE pc' = AfterRegister /\ UNCHANGED j
    /\ UNCHANGED <<args, debug, images, w, h, crops, l, k, i, dirs, run, prev>>

\* lines 87-89
RemoveMargin ==
    /\ pc = "remove_margin"
    /\ LET b == Flatten(crops)[j]
       IN  /\ disk' = WriteFile(disk, b, CropImage(disk[b], w - Margin, h - Margin))
           /\ calls' = Append(calls, Call("crop", 0, <<>>, <<b, b>>,
                                          w - Margin, h - Margin))
    /\ IF j < Len(Flatten(crops))
       THEN j' = j + 1 /\ UNCHANGED pc
       ELSE pc' = AfterRegister /\ UNCHANGED j
    /\ UNCHANGED <<args, debug, images, w, h, crops, l, k, i, dirs, run, prev>>

\* line 94
MkdirMidway ==
    /\ pc = "mkdir_midway"
    /\ dirs' = dirs \cup {"no_midway"}
    /\ calls' = Append(calls, Call("mkdir_p", 0, <<>>,
                                   <<DirPath("no_midway")>>, 0, 0))
    /\ j' = 1
    /\ pc' = IF Flatten(crops) = <<>> THEN MidwayFrom(0) ELSE "copy"
    /\ UNCHANGED <<args, debug, images, w, h, crops, l, k, i, disk, run, prev>>

\* mutant: the images are moved to no_midway instead of copied
CopyCrop_Move ==
    /\ pc = "copy"
    /\ LET b == Flatten(crops)[j]
           o == InDir("no_midway", b)
       IN  /\ disk' = RemoveFile(WriteFile(disk, o, disk[b]), b)
           /\ calls' = Append(calls, Call("copy", 0, <<>>, <<o, b>>, 0, 0))
    /\ IF j < Len(Flatten(crops))
       THEN j' = j + 1 /\ UNCHANGED pc
       ELSE pc' = MidwayFrom(0) /\ UNCHANGED j
    /\ UNCHANGED <<args, debug, images, w, h, crops, l, k, i, dirs, run, prev>>

\* lines 95-97
CopyCrop ==
    /\ pc = "copy"
    /\ LET b == Flatten(crops)[j]
           o == InDir("no_midway", b)
       IN  /\ disk' = WriteFile(disk, o, disk[b])
           /\ calls' = Append(calls, Call("copy", 0, <<>>, <<o, b>>, 0, 0))
    /\ IF j < Len(Flatten(crops))
       THEN j' = j + 1 /\ UNCHANGED pc
       ELSE pc' = MidwayFrom(0) /\ UNCHANGED j
    /\ UNCHANGED <<args, debug, images, w, h, crops, l, k, i, dirs, run, prev>>

\* lines 99-100
Midway ==
    /\ pc = "midway"
    /\ LET group == MidwayGroup(crops, i)
       IN  /\ disk' = Equalized(disk, group)
           /\ calls' = Append(calls, Call("midway", i, <<>>, group, 0, 0))
    /\ i' = i + 1
    /\ pc' = MidwayFrom(i + 1)
    /\ UNCHANGED <<args, debug, images, w, h, crops, l, k, j, dirs, run, prev>>

\* mutant: a handler removes the files of the current image on failure
Raise_Cleanup ==
    /\ pc \in CallSites
    /\ ~(pc = "test" /\ l = <<>>)
    /\ pc' = "aborted"
    /\ disk' = [q \in DOMAIN disk \ Range(l) |-> disk[q]]
    /\ UNCHANGED <<args, debug, locals, dirs, calls, run, prev>>

\* mutant: an empty list of crops is an error as well
Raise_OnEmpty ==
    /\ pc \in CallSites
    /\ pc' = "aborted"
    /\ UNCHANGED <<args, debug, locals, world, run, prev>>

\* a collaborator call raises: nothing in get_time_series catches it
Raise ==
    /\ pc \in CallSites
    /\ ~(pc = "test" /\ l = <<>>)
    /\ pc' = "aborted"
    /\ UNCHANGED <<args, debug, locals, world, run, prev>>

\* lines 126-129: get_time_series is called once more with the same
\* arguments except debug, on an output directory in its initial state and
\* with the collaborators behaving as before
Rerun ==
    /\ pc = "done"
    /\ run = 1
    /\ run' = 2
    /\ prev' = [crops |-> crops, disk |-> disk, calls |-> calls]
    /\ debug' = ~debug
    /\ pc' = "list_images"
    /\ images' = <<>>
    /\ w' = w0
    /\ h' = h0
    /\ crops' = <<>>
    /\ l' = <<>>
    /\ k' = 1
    /\ j' = 1
    /\ i' = 0
    /\ disk' = <<>>
    /\ dirs' = {}
    /\ calls' = <<>>
    /\ UNCHANGED args

Next ==
    \/ ListImages
    \/ TakeMargin
    \/ GetCrops
    \/ TestCrops
    \/ RemoveCrop
    \/ MkdirBak
    \/ BackupCrop
    \/ Registration
    \/ RemoveMargin
    \/ MkdirMidway
    \/ CopyCrop
    \/ Midway
    \/ Raise

Spec == Init /\ [][Next]_vars

\* the steps of a run in which every collaborator call returns
NextReturning ==
    \/ ListImages
    \/ TakeMargin
    \/ GetCrops
    \/ TestCrops
    \/ RemoveCrop
    \/ MkdirBak
    \/ BackupCrop
    \/ Registration
    \/ RemoveMargin
    \/ MkdirMidway
    \/ CopyCrop
    \/ Midway

\* the interpreter goes on to the next statement as long as calls return
SpecReturning == Init /\ [][NextReturning]_vars /\ WF_vars(NextReturning)

NextPair == Next \/ Rerun

SpecPair == Init /\ [][NextPair]_vars

\* ------------------------------------------------- vocabulary of the claims
Done == pc = "done"

\* the paths of the Crop Sets of the Time Series
Surviving == Range(Flatten(crops))

\* the positions of `calls` holding a call of the given kind
CallsOf(op) == {n \in 1..Len(calls) : calls[n].op = op}

\* crop_georeferenced_image(b, b, ...): destination and source are the same
TrimsInPlace == {n \in CallsOf("crop") : calls[n].group[1] = calls[n].group[2]}

\* the bands some image of the catalog has as an all-zero raster
HasZeroBand(img) == \E b \in Range(bands) : avail[img][b] = "zero"

\* ------------------------------------------------------------------- C1
\* C1: when the pipeline ends, a discovered scene whose download returned at
\* least one all-zero artifact has no Crop Set in crops and none of the
\* artifacts returned for it is on disk.
C1_ZeroSceneRemoved ==
    Done =>
        \A img \in 1..catalog :
            HasZeroBand(img) =>
                /\ \A p \in Surviving : p.scene # img
                /\ \A b \in Range(bands) :
                      avail[img][b] # "missing" => OutPath(img, b) \notin DOMAIN disk

\* three scenes, the second one all-zero, the other two kept
C1_Witness ==
    /\ Done
    /\ catalog = 3
    /\ HasZeroBand(2)
    /\ Len(crops) = 2
    /\ \E n \in CallsOf("remove") : calls[n].group[1].scene = 2

\* ------------------------------------------------------------------- C2
\* C2: with register true, at Done every artifact of every surviving Crop
\* Set has exactly the requested width and height.
C2_MarginRemoved ==
    (register /\ Done) =>
        \A p \in Surviving :
            /\ p \in DOMAIN disk
            /\ disk[p].w = w0
            /\ disk[p].h = h0

\* 5000 x 5000 requested, downloaded at 5100 x 5100, two Crop Sets kept
C2_Witness ==
    /\ register
    /\ Done
    /\ w0 = 5000
    /\ Len(crops) >= 2
    /\ \E n \in CallsOf("get_crops") : calls[n].w = 5100 /\ calls[n].h = 5100

\* ------------------------------------------------------------------- C3
\* C3: with register false, no file (working or snapshot) is ever larger
\* than the requested width and height, every download is requested at
\* exactly the requested size and no crop call is made.
C3_NoMarginWithoutRegister ==
    ~register =>
        /\ \A p \in DOMAIN disk : disk[p].w <= w0 /\ disk[p].h <= h0
        /\ \A n \in CallsOf("get_crops") : calls[n].w = w0 /\ calls[n].h = h0
        /\ CallsOf("crop") = {}

\* a run without registration that downloaded, kept and copied crops
C3_Witness ==
    /\ ~register
    /\ Done
    /\ crops # <<>>
    /\ \E p \in DOMAIN disk : p.dir = "no_midway"

\* ------------------------------------------------------------------- C4
\* C4: in every equalization call, the group of band index i holds only
\* artifacts of band bands[i].
C4_GroupsOfOneBand ==
    \A n \in CallsOf("midway") :
        \A m \in 1..Len(calls[n].group) :
            calls[n].group[m].band = bands[calls[n].img + 1]

\* ------------------------------------------------------------------- C5
\* C5: the group passed to equalization for band index i holds nothing from
\* a Crop Set of length <= i and exactly the artifact at position i of each
\* Crop Set of length > i, in the order of the Time Series.
C5_GroupPerIndex ==
    \A n \in CallsOf("midway") :
        LET idx == calls[n].img
            group == calls[n].group
            long == {c \in 1..Len(crops) : Len(crops[c]) > idx}
        IN  /\ Len(group) = Cardinality(long)
            /\ \A c \in long :
                  Cardinality({m \in 1..Len(group) : group[m] = crops[c][idx + 1]}) = 1
            /\ \A m \in 1..Len(group) :
                  \E c \in long : group[m] = crops[c][idx + 1]
            /\ \A m1, m2 \in 1..Len(group) :
                  m1 < m2 =>
                      \E c1, c2 \in long :
                          /\ c1 < c2
                          /\ group[m1] = crops[c1][idx + 1]
                          /\ group[m2] = crops[c2][idx + 1]

\* three bands asked, two Crop Sets kept, the second without a third entry:
\* the group of index 2 holds the artifact of the first scene only
C5_Witness ==
    /\ Len(bands) = 3
    /\ Len(crops) = 2
    /\ Len(crops[1]) = 3
    /\ Len(crops[2]) = 2
    /\ \E n \in CallsOf("midway") :
          /\ calls[n].img = 2
          /\ calls[n].group = <<crops[1][3]>>

\* ------------------------------------------------------------------- C6
\* the file a snapshot of working artifact p has in directory d
Snapshot(d, p) == [dir |-> d, scene |-> p.scene, band |-> p.band]

\* the state in which registration.main is about to be called
BeforeRegistration == pc = "registration"

\* the state in which the first midway.main is about to be called
BeforeEqualization == pc = "midway" /\ i = 0

\* every kept artifact has a byte-for-byte copy in directory d
CopiedTo(d) ==
    \A p \in Surviving :
        /\ Snapshot(d, p) \in DOMAIN disk
        /\ disk[Snapshot(d, p)] = disk[p]

\* while the copies are being made no working artifact changes, and a
\* snapshot file, once written, is never changed or removed
SnapshotsStable ==
    /\ pc \in {"mkdir_bak", "backup", "mkdir_midway", "copy"} =>
          \A p \in DOMAIN disk :
              p.dir = "out" => p \in DOMAIN disk' /\ disk'[p] = disk[p]
    /\ \A p \in DOMAIN disk :
          p.dir # "out" => p \in DOMAIN disk' /\ disk'[p] = disk[p]

Working(d) == [p \in {q \in DOMAIN d : q.dir = "out"} |-> d[p]]

\* the acquire, register, trim-in-place and equalize calls of a record
CoreCalls(cs) ==
    SelectSeq(cs, LAMBDA c :
        \/ c.op \in {"get_crops", "registration", "midway"}
        \/ c.op = "crop" /\ c.group[1] = c.group[2])

\* a snapshot step leaves every file of the working directory as it is
SnapshotKeepsWorking ==
    pc \in {"mkdir_bak", "backup", "mkdir_midway", "copy"} =>
        Working(disk') = Working(disk)

\* C7: two runs that differ only in debug end with the same Time Series,
\* the same working artifacts (content and footprint) and the same sequence
\* of acquire, register, trim-in-place and equalize calls; the snapshot steps
\* never write or delete a working artifact.
C7_DebugChangesNothing ==
    /\ []((run = 2 /\ Done) =>
            /\ crops = prev.crops
            /\ Working(disk) = Working(prev.disk)
            /\ CoreCalls(calls) = CoreCalls(prev.calls))
    /\ [][SnapshotKeepsWorking]_vars

\* both runs finished, one of them left both kinds of snapshot
C7_Witness ==
    /\ run = 2
    /\ Done
    /\ Len(crops) >= 2
    /\ register
    /\ equalize
    /\ \/ \E p \in DOMAIN disk : p.dir = "no_registration"
       \/ \E p \in DOMAIN prev.disk : p.dir = "no_registration"
    /\ \/ \E p \in DOMAIN disk : p.dir = "no_midway"
       \/ \E p \in DOMAIN prev.disk : p.dir = "no_midway"

\* ------------------------------------------------------------------- C8
\* C8: when the search returns no image, the Time Series is empty, the run
\* is not aborted by a collaborator and no acquisition, registration or
\* equalization call is made, whatever register, equalize and debug are.
C8_NoSceneNoCall ==
    (CallsOf("list_images") # {} /\ images = <<>>) =>
        /\ crops = <<>>
        /\ CallsOf("get_crops") = {}
        /\ CallsOf("registration") = {}
        /\ CallsOf("midway") = {}

\* ------------------------------------------------------------------- C9
\* C9: with register true, at Done each artifact of each surviving Crop Set
\* has been trimmed in place exactly once and nothing else has; with
\* register false no trim is ever made; every trim in place comes after the
\* registration call and before any pre-equalization copy or equalization.
C9_TrimOnceAfterRegistration ==
    /\ ~register => TrimsInPlace = {}
    /\ (register /\ Done) =>
          /\ \A p \in Surviving :
                Cardinality({n \in TrimsInPlace : calls[n].group[1] = p}) = 1
          /\ \A n \in TrimsInPlace : calls[n].group[1] \in Surviving
    /\ \A n \in TrimsInPlace :
          /\ calls[n].w = w0
          /\ calls[n].h = h0
          /\ \E m \in CallsOf("registration") : m < n
          /\ \A m \in CallsOf("copy") \cup CallsOf("midway") : n < m
          /\ \A m \in CallsOf("mkdir_p") :
                calls[m].group[1].dir = "no_midway" => n < m

\* registration, trims, pre-equalization copies and equalization all ran
C9_Witness ==
    /\ register
    /\ Done
    /\ Cardinality(Surviving) >= 2
    /\ Cardinality(TrimsInPlace) = Cardinality(Surviving)
    /\ CallsOf("copy") # {}
    /\ CallsOf("midway") # {}

\* ------------------------------------------------------------------ C10
\* the step that aborts changes nothing but the position
AbortKeepsEffects == pc' = "aborted" => (world' = world /\ locals' = locals)

\* nothing runs after the abort
AbortedStays == pc = "aborted" => pc' = "aborted"

\* C10: when a collaborator call raises the run stops there: the failing
\* step changes no file, directory, recorded call or local, and once
\* aborted nothing is called or changed any more (no rollback, no cleanup).
C10_AbortLeavesEffects ==
    /\ [][AbortKeepsEffects]_vars
    /\ [][AbortedStays]_vars

\* aborted in the middle of removing an empty scene, other files kept
C10_Witness ==
    /\ pc = "aborted"
    /\ CallsOf("remove") # {}
    /\ \E p \in Range(l) : p \in DOMAIN disk
    /\ \E p \in Range(l) : p \notin DOMAIN disk
    /\ crops # <<>>

\* ------------------------------------------------------------------ C11
\* the positions of get_time_series up to the end of the download loop
Downloading == {"list_images", "margin", "get_crops", "test", "remove"}

\* the images whose download gives at least one raster and no all-zero one
Usable(img) ==
    /\ \E b \in Range(bands) : avail[img][b] # "missing"
    /\ ~HasZeroBand(img)

\* C11: once the download loop is over, crops holds exactly one Crop Set
\* for each usable discovered image (non-empty download, no all-zero
\* artifact), in discovery order, and each discovered image was downloaded
\* exactly once.
C11_TimeSeriesIsUsableScenes ==
    (pc \notin Downloading /\ pc # "aborted") =>
        /\ Len(crops) = Cardinality({img \in 1..catalog : Usable(img)})
        /\ \A n \in 1..Len(crops) :
              /\ crops[n] # <<>>
              /\ \A m \in 1..Len(crops[n]) : crops[n][m].scene = crops[n][1].scene
              /\ Usable(crops[n][1].scene)
              /\ \A b \in Range(bands) :
                    avail[crops[n][1].scene][b] # "missing" =>
                        OutPath(crops[n][1].scene, b) \in Range(crops[n])
        /\ \A n1, n2 \in 1..Len(crops) :
              n1 < n2 => crops[n1][1].scene < crops[n2][1].scene
        /\ \A img \in 1..catalog :
              Cardinality({n \in CallsOf("get_crops") : calls[n].img = img}) = 1

\* three images found, the first and the third usable, the second not
C11_Witness ==
    /\ Done
    /\ catalog = 3
    /\ Usable(1)
    /\ ~Usable(2)
    /\ Usable(3)
    /\ Len(crops) = 2
    /\ crops[1][1].scene = 1
    /\ crops[2][1].scene = 3

\* ------------------------------------------------------------------ C12
\* the calls of the acquire+filter stage
DownloadCalls == CallsOf("get_crops") \cup CallsOf("imread") \cup CallsOf("remove")

\* the calls of the stages that follow it
LaterCalls ==
    CallsOf("registration") \cup CallsOf("crop") \cup CallsOf("copy")
        \cup CallsOf("midway") \cup CallsOf("mkdir_p")

\* C12: registration.main is called at most once, only with register true,
\* only after every discovered image has been downloaded and filtered, with
\* the whole Time Series as both arguments and all_pairwise true; no
\* download, read or removal comes after a call of a later stage, and
\* equalization comes after registration and the trims.
C12_StagesInOrder ==
    /\ Cardinality(CallsOf("registration")) <= 1
    /\ CallsOf("registration") # {} => register
    /\ \A n \in CallsOf("registration") :
          /\ calls[n].series = crops
          /\ calls[n].series2 = crops
          /\ calls[n].all_pairwise
          /\ \A img \in 1..catalog :
                \E m \in CallsOf("get_crops") : m < n /\ calls[m].img = img
          /\ \A m \in CallsOf("midway") : n < m
    /\ \A m \in DownloadCalls : \A n \in LaterCalls : m < n
    /\ \A m \in CallsOf("list_images") : \A n \in DownloadCalls \cup LaterCalls : m < n
    /\ \A m \in TrimsInPlace : \A n \in CallsOf("midway") : m < n

\* three images downloaded and filtered, then one registration of the two
\* kept Crop Sets, then equalization
C12_Witness ==
    /\ Done
    /\ catalog = 3
    /\ Len(crops) = 2
    /\ Cardinality(CallsOf("registration")) = 1
    /\ CallsOf("remove") # {}
    /\ CallsOf("midway") # {}

\* ------------------------------------------------------------------ C13
\* the width and height every download of the run must be asked at
WorkingW == IF register THEN w0 + Margin ELSE w0
WorkingH == IF register THEN h0 + Margin ELSE h0

\* C13: every download of a run is asked at the same width and height,
\* w0+100 x h0+100 with register and w0 x h0 without, and from the first
\* download on the locals w and h keep that value.
C13_OneWorkingSize ==
    /\ \A n \in CallsOf("get_crops") : calls[n].w = WorkingW /\ calls[n].h = WorkingH
    /\ pc \notin {"list_images", "margin", "aborted"} => (w = WorkingW /\ h = WorkingH)
    /\ \A p \in DOMAIN disk :
          (p.dir = "out" /\ TrimsInPlace = {}) =>
              (disk[p].w = WorkingW /\ disk[p].h = WorkingH)

\* three downloads at 400 x 300 for a request of 300 x 200 with register
C13_Witness ==
    /\ register
    /\ w0 = 300
    /\ h0 = 200
    /\ Cardinality(CallsOf("get_crops")) = 3
    /\ \A n \in CallsOf("get_crops") : calls[n].w = 400 /\ calls[n].h = 300

\* ------------------------------------------------------------------ C14
\* the paths removed by the emptiness filter
Removed == {calls[n].group[1] : n \in CallsOf("remove")}

\* the working paths a call of a later stage was given
Referenced(c) ==
    IF c.op = "registration" THEN Range(Flatten(c.series)) \cup Range(Flatten(c.series2))
    ELSE IF c.op = "midway" THEN Range(c.group)
    ELSE IF c.op \in {"crop", "copy"} THEN {c.group[2]}
    ELSE {}

\* C14: no path removed by the filter is in the Time Series or is given to
\* registration, cropping, copying or equalization; every path those calls
\* were given is in a Crop Set of the Time Series, and every path of the
\* Time Series is on disk whenever such a call is made or pending.
C14_OnlyKeptFilesUsed ==
    /\ Removed \cap Surviving = {}
    /\ Removed \cap DOMAIN disk = {}
    /\ \A n \in 1..Len(calls) :
          /\ Referenced(calls[n]) \subseteq Surviving
          /\ Referenced(calls[n]) \cap Removed = {}
          /\ Referenced(calls[n]) \subseteq DOMAIN disk
    /\ pc \notin Downloading \cup {"aborted"} => Surviving \subseteq DOMAIN disk

\* a scene was removed, another was kept and went through every later stage
C14_Witness ==
    /\ Done
    /\ Removed # {}
    /\ Surviving # {}
    /\ CallsOf("registration") # {}
    /\ CallsOf("copy") # {}
    /\ \E n \in CallsOf("midway") : calls[n].group # <<>>
    /\ \E n \in CallsOf("crop") : calls[n].group[1] # calls[n].group[2]

\* ------------------------------------------------------------------ C15
\* C15: with equalize false midway.main is never called; with equalize true
\* it is called for the band indices 0, 1, ... in increasing order, once
\* each, len(bands) times in all when the run is done, and always after
\* every crop and every pre-equalization copy.
C15_OneEqualizationPerBand ==
    /\ ~equalize => CallsOf("midway") = {}
    /\ \A n \in CallsOf("midway") :
          /\ calls[n].img = Cardinality({m \in CallsOf("midway") : m < n})
          /\ calls[n].img < Len(bands)
          /\ \A m \in CallsOf("crop") \cup CallsOf("copy") \cup CallsOf("mkdir_p") : m < n
    /\ (equalize /\ Done) => Cardinality(CallsOf("midway")) = Len(bands)
    /\ (equalize /\ debug /\ CallsOf("midway") # {}) =>
          /\ \E m \in CallsOf("mkdir_p") : calls[m].group[1].dir = "no_midway"
          /\ \A p \in Surviving :
                \E m \in CallsOf("copy") : calls[m].group[2] = p
    /\ (register /\ CallsOf("midway") # {}) =>
          \A p \in Surviving : \E m \in TrimsInPlace : calls[m].group[1] = p

\* three bands equalized after registration, trims and copies
C15_Witness ==
    /\ Done
    /\ equalize
    /\ register
    /\ debug
    /\ Len(bands) = 3
    /\ Cardinality(CallsOf("midway")) = 3
    /\ Surviving # {}

\* ------------------------------------------------------------------ C16
\* the calls that write a file into snapshot directory d
WritesInto(d) ==
    {n \in CallsOf("crop") \cup CallsOf("copy") : calls[n].group[1].dir = d}

\* the mkdir_p calls for snapshot directory d
Mkdirs(d) == {n \in CallsOf("mkdir_p") : calls[n].group[1].dir = d}

\* C16: with debug false no snapshot directory is made and no snapshot file
\* is written; with debug true no_registration is made only with register
\* and no_midway only with equalize, each at most once (exactly once when
\* the run is done) and before the first file written into it.
C16_SnapshotDirectories ==
    /\ ~debug =>
          /\ dirs = {}
          /\ CallsOf("mkdir_p") = {}
          /\ CallsOf("copy") = {}
          /\ \A p \in DOMAIN disk : p.dir = "out"
    /\ Mkdirs("no_registration") # {} => (debug /\ register)
    /\ Mkdirs("no_midway") # {} => (debug /\ equalize)
    /\ \A d \in {"no_registration", "no_midway"} :
          /\ Cardinality(Mkdirs(d)) <= 1
          /\ d \in dirs <=> Mkdirs(d) # {}
          /\ \A n \in WritesInto(d) : \E m \in Mkdirs(d) : m < n
          /\ \A p \in DOMAIN disk : p.dir = d => d \in dirs
    /\ (Done /\ debug /\ register) => Cardinality(Mkdirs("no_registration")) = 1
    /\ (Done /\ debug /\ equalize) => Cardinality(Mkdirs("no_midway")) = 1

\* both directories made once and filled
C16_Witness ==
    /\ Done
    /\ debug
    /\ dirs = {"no_registration", "no_midway"}
    /\ WritesInto("no_registration") # {}
    /\ WritesInto("no_midway") # {}

\* ------------------------------------------------------------------ C17
\* the download of image img returns no path
NothingFor(img) == \A b \in Range(bands) : avail[img][b] = "missing"

\* an empty list is passed over: the next image is taken up, nothing is
\* called, removed or appended, and the run is not aborted
EmptyListSkipped ==
    (pc = "test" /\ l = <<>>) =>
        /\ pc' # "aborted"
        /\ pc' # "remove"
        /\ k' = k + 1
        /\ crops' = crops
        /\ world' = world

\* a list with an all-zero raster is not appended; unless a collaborator
\* raises, its files are removed one after the other and the next image is
\* taken up
ZeroListRemoved ==
    /\ (pc = "test" /\ l # <<>> /\ (\E p \in Range(l) : ~HasAny(disk[p]))
           /\ pc' # "aborted") =>
          (pc' = "remove" /\ crops' = crops /\ disk' = disk /\ k' = k)
    /\ (pc = "remove" /\ pc' # "aborted") =>
          /\ crops' = crops
          /\ pc' = "remove" => k' = k
          /\ pc' # "remove" =>
                /\ k' = k + 1
                /\ Range(l) \cap DOMAIN disk' = {}

\* C17: an image whose download returns nothing is left out of crops
\* without an abort and without any removal, and the loop goes on with the
\* next image; a list with an all-zero raster is left out and its files are
\* removed, and the code itself raises nothing for it.
C17_EmptinessIsNotAnError ==
    /\ [](\A img \in 1..catalog :
            NothingFor(img) =>
                /\ \A p \in Surviving \cup Removed : p.scene # img
                /\ \A p \in DOMAIN disk : p.scene # img)
    /\ [][EmptyListSkipped]_vars
    /\ [][ZeroListRemoved]_vars

\* nothing for the first image, an all-zero raster for the second, the
\* third kept: the run is done
C17_Witness ==
    /\ Done
    /\ catalog = 3
    /\ bands # <<>>
    /\ NothingFor(1)
    /\ HasZeroBand(2)
    /\ Len(crops) = 1
    /\ crops[1][1].scene = 3
    /\ \A p \in Removed : p.scene = 2
    /\ Removed # {}

\* ------------------------------------------------------------------ C18
\* the stage each position belongs to, in the order of the code
Stage ==
    [list_images |-> 1, margin |-> 1,
     get_crops |-> 2, test |-> 2, remove |-> 2,
     mkdir_bak |-> 3, backup |-> 3, registration |-> 3,
     remove_margin |-> 4,
     mkdir_midway |-> 5, copy |-> 5, midway |-> 5,
     done |-> 6]

\* a step never goes back to an earlier stage, takes the images and the
\* band indices up one after the other and never twice
SinglePass ==
    /\ Stage[pc'] >= Stage[pc]
    /\ k' \in {k, k + 1} \/ (pc = "margin" /\ k' = 1)
    /\ i' \in {i, i + 1}
    /\ (pc \in {"test", "remove"} /\ pc' \notin {"test", "remove"}) => k' = k + 1
    /\ pc = "get_crops" => (k' = k /\ k <= Len(images))
    /\ pc = "midway" => (i' = i + 1 /\ i < Len(bands))
    /\ pc = "done" => pc' = "done"

\* C18: when every collaborator call returns, the run reaches Done, after
\* one pass over the images and one pass over the band indices and without
\* ever going back to an earlier stage.
C18_RunTerminates ==
    /\ <>Done
    /\ [][SinglePass]_vars

\* a run that went through every stage with three images
C18_Witness ==
    /\ Done
    /\ catalog = 3
    /\ k = 4
    /\ i = Len(bands)
    /\ i >= 2
    /\ register
    /\ equalize
    /\ debug
    /\ Removed # {}
    /\ Surviving # {}

\* ------------------------------------------------------------------ C19
\* the paths of the files of the working directory
WorkingPaths(d) == {p \in DOMAIN d : p.dir = "out"}

\* a step taken after the download loop keeps crops and the set of working
\* files
LaterStagesKeepFiles ==
    pc \notin Downloading =>
        /\ crops' = crops
        /\ WorkingPaths(disk') = WorkingPaths(disk)

\* C19: once acquire+filter is over, registration, cropping, copying and
\* equalization leave crops as it is and create or delete no working file:
\* from then on the working files are exactly the paths of the Time Series.
C19_LaterStagesKeepSeries ==
    /\ []((pc \notin Downloading /\ pc # "aborted") =>
            WorkingPaths(disk) = Surviving)
    /\ [][LaterStagesKeepFiles]_vars

\* every later stage ran on two kept Crop Sets
C19_Witness ==
    /\ Done
    /\ register
    /\ equalize
    /\ debug
    /\ Len(crops) = 2
    /\ Removed # {}
    /\ WorkingPaths(disk) = Surviving
    /\ \E p \in Surviving : disk[p].reg /\ disk[p].eq # {}

\* ------------------------------------------------------------------ C20
\* the crop calls that wrote a file of no_registration
BackupCalls == WritesInto("no_registration")

\* while the backups are made the working files are left as they are
BackupKeepsWorking ==
    pc = "backup" => Working(disk') = Working(disk)

\* C20: with register and debug, every file of no_registration has the
\* target size (w-100 x h-100, the requested size) and was written by a
\* crop of the working file of the same name; until registration is called
\* the working files still have the working size, and the backup does not
\* change them.
C20_BackupIsCroppedCopy ==
    /\ [](/\ \A p \in DOMAIN disk :
                p.dir = "no_registration" =>
                    /\ register /\ debug
                    /\ disk[p].w = w - Margin /\ disk[p].h = h - Margin
                    /\ disk[p].w = w0 /\ disk[p].h = h0
                    /\ ~disk[p].reg
                    /\ \E n \in BackupCalls :
                          /\ calls[n].op = "crop"
                          /\ calls[n].group = <<p, OutPath(p.scene, p.band)>>
                          /\ calls[n].w = w0 /\ calls[n].h = h0
          /\ \A n \in BackupCalls : calls[n].op = "crop"
          /\ pc \in {"mkdir_bak", "backup", "registration"} =>
                \A p \in Surviving :
                    disk[p].w = w0 + Margin /\ disk[p].h = h0 + Margin)
    /\ [][BackupKeepsWorking]_vars

\* two backups written, registration about to be called
C20_Witness ==
    /\ pc = "registration"
    /\ debug
    /\ Cardinality(BackupCalls) >= 2
    /\ \E p \in Surviving :
          /\ disk[p].w = 5100
          /\ disk[InDir("no_registration", p)].w = 5000

====
